---- MODULE Spec2Model ----
(***************************************************************************)
(* Work-order lifecycle of app_v6_deploy.py (guild-hunter-app).            *)
(*                                                                         *)
(* The "quests" worksheet is a sequence of rows below the header row.      *)
(* Every Streamlit session (one per worker, one for the administrator)     *)
(* runs the script in its own thread: a script run first reads the ticket  *)
(* collection through get_data (hunter_view line 1267, admin_view line     *)
(* 1173), decides from that snapshot which button fired, and only then     *)
(* calls update_quest_status.  Between the read and the write other        *)
(* sessions may run, so a script run is two steps here: the Click* actions *)
(* (read, guard, arguments of the call) and UpdateQuestStatus (the call).  *)
(* After the guard the snapshot is never read again, so a session keeps    *)
(* only the arguments of its pending call and the frame row it acted on.   *)
(*                                                                         *)
(* Cells keep their spreadsheet form: partner_id is the comma-joined text  *)
(* (a sequence of name and "," tokens), split again by every reader.       *)
(* title, quote_no and description are free text no lifecycle operation    *)
(* reads, and are left out of the rows.                                    *)
(***************************************************************************)
EXTENDS Integers, Sequences, FiniteSets, TLC

\* ---------------------------------------------------------------- bounds
MaxQuests == 2          \* tickets the administrator publishes
MonthLen == 2           \* clock ticks in a month
MaxBudget == 7          \* largest budget the classifier reports
MaxPieces == 3          \* pieces a quote number typed or recognised is made of

\* ------------------------------------------------------------- constants
\* the category names of lines 306-307, in the same order, written in ASCII
TYPE_ENG == <<"eng_fire", "eng_mech", "eng_home">>
TYPE_MAINT == <<"mnt_quote", "mnt_handover", "mnt_urgent", "mnt_periodic", "mnt_patrol", "mnt_supply">>
ALL_TYPES == TYPE_ENG \o TYPE_MAINT

max_selections == 3     \* st.multiselect(..., max_selections=3)

\* names of the employees sheet (get_auth_dict), and the sessions
Workers == {"w1", "w2"}
Admin == "Admin"
Clients == Workers \cup {Admin}

\* the employees sheet in its order; only Workers open a session
Roster == <<"w1", "w2", "w3", "w4", "w5">>
Employees == {Roster[i] : i \in 1..Len(Roster)}

\* what the administrator's form is filled with here, (category, amount): an
\* engineering contract and a maintenance ticket are published in turn
AdminForms == <<(<<TYPE_ENG[1], 101>>), (<<TYPE_MAINT[1], 90>>)>>

None == "None"          \* Python None of an Optional[str] argument
NoneList == <<None>>    \* Python None of an Optional[List[str]] argument
NoCache == [hit |-> FALSE, val |-> <<>>]   \* an st.cache_data entry that is absent or expired
Cached(v) == [hit |-> TRUE, val |-> v]
NoRow == [id |-> 0, rank |-> "", points |-> 0, status |-> "", hunter_id |-> "",
          created_at |-> 0, partner_id |-> <<>>]
\* no calc_my_total_month call yet
NoCalc == [me |-> "", month_yyyy_mm |-> 0, total |-> 0, called |-> FALSE]
\* the header row the quests worksheet is set up with
QUEST_COLS == <<"id", "title", "quote_no", "description", "rank", "points", "status",
                "hunter_id", "created_at", "partner_id">>

\* st.session_state.get(sig_key, ""): no signature stored yet
NoSig == <<>>
\* the signature "EMPTY" of an empty frame; every other signature is
\* <<max created_at, max id>>, printed as "created_at|id"
EMPTY == <<0, 0>>
\* pd.DataFrame(): the frame without rows or columns
EmptyFrame == <<>>
\* no session has stored a signature yet
NoMark == [how |-> "none", at |-> <<>>]
\* no session has read or checked anything yet
NoObs == [op |-> "none", who |-> "", failed |-> FALSE, frame |-> <<>>, mapping |-> <<>>,
          latest |-> NoSig, prior |-> NoSig, has_new |-> FALSE, store |-> <<>>]

\* no update_quest_status call is being executed statement by statement
NoRun == [pc |-> "idle", who |-> "", cached_row |-> 0, row_num |-> 0, scans |-> 0,
          writes |-> 0, steps |-> 0]

\* a session that is not about to call update_quest_status
NoCall == [quest_id |-> 0, new_status |-> "", hunter_id |-> None,
           partner_list |-> NoneList, seen |-> NoRow]

VARIABLES
    sheet,      \* rows of the quests worksheet below the header, top to bottom
    dataCache,  \* st.cache_data entry of get_data(QUEST_SHEET)
    mapCache,   \* st.cache_data entry of quest_id_to_row_map()
    call,       \* per session: arguments of the update_quest_status call its run is about
                \* to make, and the frame row (the loop variable row / r) the button belongs to
    last,       \* the last update_quest_status / add_quest_to_sheet call and its result
    issued,     \* number of ids uuid4 has handed out
    calc,       \* the last call of calc_my_total_month, normalize_category or
                \* _normalize_quote_no, and its result
    headers,    \* row 1 of the quests worksheet, left to right
    sig,        \* the st.cache_data entry of _latest_quest_signature(), each session's
                \* st.session_state[sig_key], and the worksheet as it was when that
                \* session last stored a signature and how it stored it
    obs,        \* the last read or staleness check a session made and what it returned
    run         \* the update_quest_status call that is being executed statement by
                \* statement: where it is, its row_num, and the rescans, batch writes
                \* and statements it has made

vars == <<sheet, dataCache, mapCache, call, last, issued, calc, headers, sig, obs, run>>

\* ------------------------------------------------------------ helpers
Range(s) == {s[i] : i \in 1..Len(s)}

SetMax(S) == CHOOSE x \in S : \A y \in S : y <= x

\* sequences over S without repetition, of length at most n
RECURSIVE DistinctSeqs(_, _)
DistinctSeqs(S, n) ==
    IF n = 0 THEN {<<>>}
    ELSE {<<>>} \cup UNION {{<<x>> \o t : t \in DistinctSeqs(S \ {x}, n - 1)} : x \in S}

\* ",".join([p for p in partner_list if p])
RECURSIVE JoinPartners(_)
JoinPartners(partner_list) ==
    LET kept == SelectSeq(partner_list, LAMBDA p : p # "")
    IN  IF kept = <<>> THEN <<>>
        ELSE IF Len(kept) = 1 THEN <<kept[1]>>
        ELSE <<kept[1], ",">> \o JoinPartners(Tail(kept))

\* [p for p in str(cell).split(",") if p]
RECURSIVE SplitPartners(_)
SplitPartners(cell) ==
    IF cell = <<>> THEN <<>>
    ELSE IF Head(cell) = "," THEN SplitPartners(Tail(cell))
    ELSE <<Head(cell)>> \o SplitPartners(Tail(cell))

\* ------------------------------------------------------- data access
\* get_data(QUEST_SHEET) under st.cache_data(ttl=10): the frames a call may
\* return, the cached one while the entry lives, the rows read from the worksheet
\* once its ttl has run out or when there is none; the call caches what it returns
get_data == {sheet} \cup (IF dataCache.hit THEN {dataCache.val} ELSE {})

\* a cell value that is not blank and is the id of no ticket
NotAnId == 0 - 1

\* the cell of a row in column A, as far as ids go: the ticket's id, unless
\* row 1 names another field of the ticket above column A; 0 for a blank cell
ColumnA(row) ==
    IF row = NoRow THEN 0
    ELSE IF headers[1] = "hunter_id" THEN (IF row.hunter_id = "" THEN 0 ELSE NotAnId)
    ELSE IF headers[1] = "partner_id" THEN (IF row.partner_id = <<>> THEN 0 ELSE NotAnId)
    ELSE IF headers[1] \in (Range(QUEST_COLS) \ {"id"}) THEN NotAnId
    ELSE row.id

\* the body of quest_id_to_row_map: ws.col_values(1), column A top to bottom,
\* the header row skipped, blank cells skipped, a later row replacing an
\* earlier one
RowMapOf(sh) ==
    [q \in {ColumnA(sh[i]) : i \in 1..Len(sh)} \ {0} |->
        1 + SetMax({i \in 1..Len(sh) : ColumnA(sh[i]) = q})]

\* quest_id_to_row_map() under st.cache_data(ttl=10), likewise
quest_id_to_row_map ==
    {RowMapOf(sheet)} \cup (IF mapCache.hit THEN {mapCache.val} ELSE {})

\* ws.cell(row_num, id_col).value; row 1 is the header, 0 stands for no id
CellId(sh, row_num) ==
    IF row_num - 1 \in 1..Len(sh) THEN sh[row_num - 1].id ELSE 0

\* _resolve_row_by_scan: the first row below the header holding the id, 0 for None
ResolveRowByScan(sh, quest_id) ==
    LET hits == {i \in 1..Len(sh) : sh[i].id = quest_id}
    IN  IF hits = {} THEN 0 ELSE 1 + (CHOOSE i \in hits : \A j \in hits : i <= j)

\* WriteRow that also blanks the points cell of a reopened ticket
WriteRow_ResetsPoints(row, new_status, hunter_id, partner_list) ==
    [row EXCEPT
        !.status = new_status,
        !.hunter_id = IF hunter_id # None THEN hunter_id ELSE @,
        !.points = IF new_status = "Open" THEN 0 ELSE @,
        !.partner_id = IF partner_list # NoneList THEN JoinPartners(partner_list)
                       ELSE IF new_status = "Open" THEN <<>>
                       ELSE @]

\* WriteRow with the cells written one at a time, seen after the first of them
WriteRow_StatusFirst(row, new_status, hunter_id, partner_list) ==
    [row EXCEPT !.status = new_status]

\* WriteRow with the partner_id cell blanked whenever no partner_list is given
\* (the "elif new_status == Open" taken as a plain else)
WriteRow_ClearsPartners(row, new_status, hunter_id, partner_list) ==
    [row EXCEPT
        !.status = new_status,
        !.hunter_id = IF hunter_id # None THEN hunter_id ELSE @,
        !.partner_id = IF partner_list # NoneList THEN JoinPartners(partner_list)
                       ELSE <<>>]

\* WriteRow with the hunter_id cell always written (None written as blank)
WriteRow_BlankHunter(row, new_status, hunter_id, partner_list) ==
    [row EXCEPT
        !.status = new_status,
        !.hunter_id = IF hunter_id # None THEN hunter_id ELSE "",
        !.partner_id = IF partner_list # NoneList THEN JoinPartners(partner_list)
                       ELSE IF new_status = "Open" THEN <<>>
                       ELSE @]

\* WriteRow with the partner_id cell written only for a list that is not empty
WriteRow_KeepsWhenEmpty(row, new_status, hunter_id, partner_list) ==
    [row EXCEPT
        !.status = new_status,
        !.hunter_id = IF hunter_id # None THEN hunter_id ELSE @,
        !.partner_id = IF partner_list # NoneList /\ partner_list # <<>>
                       THEN JoinPartners(partner_list)
                       ELSE IF new_status = "Open" THEN <<>>
                       ELSE @]

\* the cells one batch_update writes into a row (lines 712-743)
WriteRow(row, new_status, hunter_id, partner_list) ==
    [row EXCEPT
        !.status = new_status,
        !.hunter_id = IF hunter_id # None THEN hunter_id ELSE @,
        !.partner_id = IF partner_list # NoneList THEN JoinPartners(partner_list)
                       ELSE IF new_status = "Open" THEN <<>>
                       ELSE @]

\* TargetRow that takes the last row for an id the index does not hold
TargetRow_GuessLast(sh, mapping, quest_id) ==
    IF quest_id \notin DOMAIN mapping THEN Len(sh) + 1
    ELSE IF CellId(sh, mapping[quest_id]) = quest_id THEN mapping[quest_id]
    ELSE ResolveRowByScan(sh, quest_id)

\* TargetRow that accepts the cached row whenever its id cell is not blank
TargetRow_AnyId(sh, mapping, quest_id) ==
    IF quest_id \notin DOMAIN mapping THEN 0
    ELSE IF CellId(sh, mapping[quest_id]) # 0 THEN mapping[quest_id]
    ELSE ResolveRowByScan(sh, quest_id)

\* row the call writes to: the cached row when its id cell still matches, else
\* the row found by the rescan; 0 when the call gives up
TargetRow(sh, mapping, quest_id) ==
    IF quest_id \notin DOMAIN mapping THEN 0
    ELSE IF CellId(sh, mapping[quest_id]) = quest_id THEN mapping[quest_id]
    ELSE ResolveRowByScan(sh, quest_id)

\* is_me_busy that also counts the tickets waiting for approval
is_me_busy_CountsPending(df, me) ==
    \E i \in 1..Len(df) :
        /\ df[i].status \in {"Active", "Pending"}
        /\ \/ me = df[i].hunter_id
           \/ me \in Range(SplitPartners(df[i].partner_id))

\* is_me_busy(df_quests, me)
is_me_busy(df, me) ==
    \E i \in 1..Len(df) :
        /\ df[i].status = "Active"
        /\ \/ me = df[i].hunter_id
           \/ me \in Range(SplitPartners(df[i].partner_id))

\* str(created_at).startswith(month_yyyy_mm): "%Y-%m" is the head of the
\* "%Y-%m-%d %H:%M:%S" text _now_str writes, a month being MonthLen ticks
StartsWithMonth(created_at, month_yyyy_mm) ==
    created_at \div MonthLen = month_yyyy_mm

\* Payout with the remainder handed to the first teammate instead of the primary
Payout_RemainderToTeammate(r, me) ==
    LET partners == SplitPartners(r.partner_id)
        team == <<r.hunter_id>> \o partners
        share == r.points \div Len(team)
        rem == r.points % Len(team)
    IN  IF me \notin Range(team) THEN 0
        ELSE IF Len(team) > 1 /\ me = team[2] THEN share + rem
        ELSE share

\* Payout with the remainder left out
Payout_RemainderDropped(r, me) ==
    LET partners == SplitPartners(r.partner_id)
        team == <<r.hunter_id>> \o partners
        share == r.points \div Len(team)
    IN  IF me \notin Range(team) THEN 0 ELSE share

\* the body of calc_my_total_month's loop (lines 972-982): what row r adds to total
Payout(r, me) ==
    LET partners == SplitPartners(r.partner_id)
        team == <<r.hunter_id>> \o partners
        share == r.points \div Len(team)
        rem == r.points % Len(team)
    IN  IF me \notin Range(team) THEN 0
        ELSE IF me = r.hunter_id THEN share + rem
        ELSE share

RECURSIVE SumPayouts(_, _)
SumPayouts(rows, me) ==
    IF rows = <<>> THEN 0
    ELSE Payout(Head(rows), me) + SumPayouts(Tail(rows), me)

\* calc_my_total_month with every status counted
calc_my_total_month_AnyStatus(df, me, month_yyyy_mm) ==
    SumPayouts(SelectSeq(df, LAMBDA r : StartsWithMonth(r.created_at, month_yyyy_mm)), me)

\* calc_my_total_month with the Pending tickets counted as well
calc_my_total_month_WithPending(df, me, month_yyyy_mm) ==
    SumPayouts(SelectSeq(df, LAMBDA r : /\ r.status \in {"Done", "Pending"}
                                        /\ StartsWithMonth(r.created_at, month_yyyy_mm)), me)

\* calc_my_total_month(df_quests, me, month_yyyy_mm)
calc_my_total_month(df, me, month_yyyy_mm) ==
    LET done == SelectSeq(df, LAMBDA r : /\ r.status = "Done"
                                         /\ StartsWithMonth(r.created_at, month_yyyy_mm))
    IN  SumPayouts(done, me)

\* record of a store call: which call, by whom, its arguments, its return
\* value, the row it addressed as that row was in the store before the call,
\* the row number the index gave and the row number written (0 for none)
Log(op, who, ok, a, before, cached_row, row_num) ==
    [op |-> op, who |-> who, ok |-> ok, before |-> before,
     cached_row |-> cached_row, row_num |-> row_num] @@ a

\* ------------------------------------------------------------- Init
Init ==
    /\ sheet = <<>>
    /\ dataCache = NoCache
    /\ mapCache = NoCache
    /\ call = [c \in Clients |-> NoCall]
    /\ last = Log("none", Admin, FALSE, NoCall, NoRow, 0, 0)
    /\ issued = 0
    /\ calc = NoCalc
    /\ headers = QUEST_COLS
    /\ sig = [cache |-> NoCache, seen |-> [c \in Clients |-> NoSig],
              mark |-> [c \in Clients |-> NoMark]]
    /\ obs = NoObs
    /\ run = NoRun

\* ---------------------------------------------------------- the store
\* FreshId that hands out the id of the last row again
FreshId_Reused == IF sheet = <<>> THEN 1 ELSE sheet[Len(sheet)].id

\* uuid.uuid4().hex: an id never handed out before
FreshId == issued + 1

\* _now_str(): the wall clock, read once per append; it has moved on since the
\* latest created_at in the sheet
NowStr(sh) == 1 + SetMax({0} \cup {sh[i].created_at : i \in 1..Len(sh)})

\* the row add_quest_to_sheet appends (lines 643-658)
NewRow(q_id, category, points, now) ==
    [id |-> q_id, rank |-> category, points |-> points, status |-> "Open",
     hunter_id |-> "", created_at |-> now, partner_id |-> <<>>]

\* get_header_map(ws): column number of every header cell that is not blank
\* (a name that occurs twice maps to its last column)
get_header_map(hdr) ==
    [h \in Range(hdr) \ {""} |-> SetMax({i \in 1..Len(hdr) : hdr[i] = h})]

\* MissingHeaders that asks for the id column only
MissingHeaders_OnlyId(hmap) == {"id"} \ DOMAIN hmap

\* the header names add_quest_to_sheet needs and does not find (lines 626-638)
MissingHeaders(hmap) == {QUEST_COLS[k] : k \in 1..Len(QUEST_COLS)} \ DOMAIN hmap

\* add_quest_to_sheet, called by the administrator's "new_task" form
AddQuest(category, points) ==
    /\ call[Admin] = NoCall
    /\ issued < MaxQuests
    /\ IF MissingHeaders(get_header_map(headers)) # {}
       THEN \* st.error(...); return False (lines 639-641)
            /\ last' = Log("add", Admin, FALSE,
                           [NoCall EXCEPT !.new_status = "missing headers"], NoRow, 0, 0)
            /\ UNCHANGED <<sheet, dataCache, mapCache, issued>>
       ELSE /\ issued' = issued + 1
            /\ LET q_id == FreshId
               IN  /\ sheet' = Append(sheet, NewRow(q_id, category, points, NowStr(sheet)))
                   /\ last' = Log("add", Admin, TRUE,
                                  [NoCall EXCEPT !.quest_id = q_id, !.new_status = "Open"],
                                  NoRow, 0, Len(sheet) + 2)
            /\ dataCache' = NoCache          \* invalidate_cache()
            /\ mapCache' = NoCache
    /\ UNCHANGED <<call, calc, headers, sig, obs, run>>

\* the header names update_quest_status looks up for a call (lines 715, 722, 731, 738)
HeadersFor(a) ==
    {"status"} \cup (IF a.hunter_id # None THEN {"hunter_id"} ELSE {})
               \cup (IF a.partner_list # NoneList \/ a.new_status = "Open"
                     THEN {"partner_id"} ELSE {})

\* UpdateQuestStatus with only get_data cleared after the write
UpdateQuestStatus_KeepsIndex(c) ==
    /\ call[c] # NoCall
    /\ \E mapping \in quest_id_to_row_map :
       LET a == call[c]
           row_num == TargetRow(sheet, mapping, a.quest_id)
           cached_row == IF a.quest_id \in DOMAIN mapping THEN mapping[a.quest_id] ELSE 0
       IN  IF row_num = 0
           THEN /\ sheet' = sheet
                /\ dataCache' = dataCache
                /\ mapCache' = Cached(mapping)
                /\ last' = Log("update", c, FALSE, a, NoRow, cached_row, 0)
           ELSE /\ HeadersFor(a) \subseteq DOMAIN get_header_map(headers)
                /\ sheet' = [sheet EXCEPT ![row_num - 1] =
                                WriteRow(@, a.new_status, a.hunter_id, a.partner_list)]
                /\ dataCache' = NoCache
                /\ mapCache' = Cached(mapping)
                /\ last' = Log("update", c, TRUE, a, sheet[row_num - 1], cached_row, row_num)
    /\ call' = [call EXCEPT ![c] = NoCall]
    /\ UNCHANGED <<issued, calc, headers, sig, obs, run>>

\* update_quest_status as called with the arguments session c holds
UpdateQuestStatus(c) ==
    /\ call[c] # NoCall
    /\ \E mapping \in quest_id_to_row_map :
       LET a == call[c]
           row_num == TargetRow(sheet, mapping, a.quest_id)
           cached_row == IF a.quest_id \in DOMAIN mapping THEN mapping[a.quest_id] ELSE 0
       IN  IF row_num = 0
           THEN \* "row not found": nothing written, the index read stays cached
                /\ sheet' = sheet
                /\ dataCache' = dataCache
                /\ mapCache' = Cached(mapping)
                /\ last' = Log("update", c, FALSE, a, NoRow, cached_row, 0)
           ELSE /\ HeadersFor(a) \subseteq DOMAIN get_header_map(headers)   \* else KeyError
                /\ sheet' = [sheet EXCEPT ![row_num - 1] =
                                WriteRow(@, a.new_status, a.hunter_id, a.partner_list)]
                /\ dataCache' = NoCache          \* invalidate_cache()
                /\ mapCache' = NoCache
                /\ last' = Log("update", c, TRUE, a, sheet[row_num - 1], cached_row, row_num)
    /\ call' = [call EXCEPT ![c] = NoCall]
    /\ UNCHANGED <<issued, calc, headers, sig, obs, run>>

\* update_quest_status when a call to the worksheet raises after the index was
\* read (get_header_map line 687, batch_update line 743): the except branch
\* returns False, nothing is written and no cache is cleared
UpdateQuestStatusRaises(c) ==
    /\ call[c] # NoCall
    /\ \E mapping \in quest_id_to_row_map :
          /\ call[c].quest_id \in DOMAIN mapping
          /\ mapCache' = Cached(mapping)
          /\ last' = Log("update raised", c, FALSE, call[c], NoRow,
                         mapping[call[c].quest_id], 0)
    /\ call' = [call EXCEPT ![c] = NoCall]
    /\ UNCHANGED <<sheet, dataCache, issued, calc, headers, sig, obs, run>>

\* ------------------------------------------------------ script runs
\* a run of session c reaches update_quest_status(quest_id, new_status, ...)
\* having read the frame df (which the read leaves in the cache)
Reach(c, df, row, new_status, hunter_id, partner_list) ==
    /\ call' = [call EXCEPT ![c] = [quest_id |-> row.id, new_status |-> new_status,
                                    hunter_id |-> hunter_id,
                                    partner_list |-> partner_list, seen |-> row]]
    /\ dataCache' = Cached(df)
    /\ UNCHANGED <<sheet, mapCache, last, issued, calc, headers, sig, obs, run>>

\* ClickClaimEng with the bid button shown for engineering tickets of any status
ClickClaimEng_AnyStatus(me, q, partners) ==
    /\ call[me] = NoCall
    /\ \E df \in get_data :
        /\ ~is_me_busy(df, me)
        /\ \E i \in 1..Len(df) :
             /\ df[i].id = q
             /\ df[i].rank \in Range(TYPE_ENG)
             /\ Reach(me, df, df[i], "Active", me, partners)

\* ClickClaimEng with an empty teammate selection passed on as no partner_list
ClickClaimEng_NoneWhenEmpty(me, q, partners) ==
    /\ call[me] = NoCall
    /\ \E df \in get_data :
        /\ ~is_me_busy(df, me)
        /\ \E i \in 1..Len(df) :
             /\ df[i].id = q
             /\ df[i].status = "Open"
             /\ df[i].rank \in Range(TYPE_ENG)
             /\ Reach(me, df, df[i], "Active", me,
                      IF partners = <<>> THEN NoneList ELSE partners)

\* hunter_view, engineering tab: the bid button of an Open engineering ticket
ClickClaimEng(me, q, partners) ==
    /\ call[me] = NoCall                          \* one run per session at a time
    /\ \E df \in get_data :
        /\ ~is_me_busy(df, me)                     \* disabled=busy
        /\ \E i \in 1..Len(df) :
             /\ df[i].id = q
             /\ df[i].status = "Open"
             /\ df[i].rank \in Range(TYPE_ENG)
             /\ Reach(me, df, df[i], "Active", me, partners)

\* ClickClaimMaint that calls update_quest_status(id, "Active") without the
\* worker's name
ClickClaimMaint_NoHunter(me, q) ==
    /\ call[me] = NoCall
    /\ \E df \in get_data :
        /\ ~is_me_busy(df, me)
        /\ \E i \in 1..Len(df) :
             /\ df[i].id = q
             /\ df[i].status = "Open"
             /\ df[i].rank \in Range(TYPE_MAINT)
             /\ Reach(me, df, df[i], "Active", None, <<>>)

\* hunter_view, maintenance tab: the take-it button of an Open maintenance ticket
ClickClaimMaint(me, q) ==
    /\ call[me] = NoCall                          \* one run per session at a time
    /\ \E df \in get_data :
        /\ ~is_me_busy(df, me)                     \* disabled=busy
        /\ \E i \in 1..Len(df) :
             /\ df[i].id = q
             /\ df[i].status = "Open"
             /\ df[i].rank \in Range(TYPE_MAINT)
             /\ Reach(me, df, df[i], "Active", me, <<>>)

\* ClickReport with the completion button shown to every member of the team
ClickReport_AnyMember(me, q) ==
    /\ call[me] = NoCall
    /\ \E df \in get_data :
        /\ \E i \in 1..Len(df) :
             /\ df[i].id = q
             /\ \/ df[i].hunter_id = me
                \/ me \in Range(SplitPartners(df[i].partner_id))
             /\ df[i].status = "Active"
             /\ Reach(me, df, df[i], "Pending", None, NoneList)

\* hunter_view, my-tasks tab: the completion button
ClickReport(me, q) ==
    /\ call[me] = NoCall                          \* one run per session at a time
    /\ \E df \in get_data :
        /\ \E i \in 1..Len(df) :
             /\ df[i].id = q
             /\ \/ df[i].hunter_id = me                                  \* is_mine
                \/ me \in Range(SplitPartners(df[i].partner_id))
             /\ df[i].status \in {"Active", "Pending"}
             /\ df[i].status = "Active" /\ df[i].hunter_id = me
             /\ Reach(me, df, df[i], "Pending", None, NoneList)

\* admin_view, review tab: the approve button of a Pending ticket
ClickApprove(q) ==
    /\ call[Admin] = NoCall                          \* one run per session at a time
    /\ \E df \in get_data :
        /\ \E i \in 1..Len(df) :
             /\ df[i].id = q
             /\ df[i].status = "Pending"
             /\ Reach(Admin, df, df[i], "Done", None, NoneList)

\* admin_view, review tab: the reject button of a Pending ticket
ClickReject(q) ==
    /\ call[Admin] = NoCall                          \* one run per session at a time
    /\ \E df \in get_data :
        /\ \E i \in 1..Len(df) :
             /\ df[i].id = q
             /\ df[i].status = "Pending"
             /\ Reach(Admin, df, df[i], "Active", None, NoneList)

\* the administrative reopen of the lifecycle (Active|Pending -> Open): the
\* administrator calls update_quest_status(id, "Open") for a ticket the frame
\* shows Active or Pending
ClickReopen(q) ==
    /\ call[Admin] = NoCall
    /\ \E df \in get_data :
        /\ \E i \in 1..Len(df) :
             /\ df[i].id = q
             /\ df[i].status \in {"Active", "Pending"}
             /\ Reach(Admin, df, df[i], "Open", None, NoneList)

QuestIds == 1..MaxQuests
PartnerChoices(me) == DistinctSeqs(Workers \ {me}, max_selections)

Next ==
    \/ \E form \in {AdminForms[(issued % Len(AdminForms)) + 1]} :
            AddQuest(form[1], form[2])
    \/ \E me \in Workers, q \in QuestIds :
            \E partners \in PartnerChoices(me) : ClickClaimEng(me, q, partners)
    \/ \E me \in Workers, q \in QuestIds : ClickClaimMaint(me, q)
    \/ \E me \in Workers, q \in QuestIds : ClickReport(me, q)
    \/ \E q \in QuestIds : ClickApprove(q)
    \/ \E q \in QuestIds : ClickReject(q)
    \/ \E c \in Clients : UpdateQuestStatus(c)

Spec == Init /\ [][Next]_vars

\* the same sessions, the administrator also reopening tickets
NextReopen ==
    \/ Next
    \/ \E q \in QuestIds : ClickReopen(q)

SpecReopen == Init /\ [][NextReopen]_vars

\* the five lifecycle operations, the reopen included, with one worker's session
NextLifecycle ==
    \/ \E form \in {AdminForms[(issued % Len(AdminForms)) + 1]} :
            AddQuest(form[1], form[2])
    \/ \E q \in QuestIds :
            \E partners \in PartnerChoices(Roster[1]) : ClickClaimEng(Roster[1], q, partners)
    \/ \E q \in QuestIds : ClickClaimMaint(Roster[1], q)
    \/ \E q \in QuestIds : ClickReport(Roster[1], q)
    \/ \E q \in QuestIds : ClickApprove(q)
    \/ \E q \in QuestIds : ClickReject(q)
    \/ \E q \in QuestIds : ClickReopen(q)
    \/ \E c \in Clients : UpdateQuestStatus(c)

SpecLifecycle == Init /\ [][NextLifecycle]_vars

\* ----------------------------------------------- team selection
\* TeamChoices with the selection not capped
TeamChoices_Unlimited(me) == DistinctSeqs(Employees \ {me}, Cardinality(Employees))

\* what the teammate multiselect can return for me: up to max_selections of
\* [u for u in all_users if u != me], in the order picked
TeamChoices(me) == DistinctSeqs(Employees \ {me}, max_selections)

\* the bids of the workers with the whole employees sheet to pick from
NextTeam ==
    \/ \E form \in {AdminForms[(issued % Len(AdminForms)) + 1]} :
            AddQuest(form[1], form[2])
    \/ \E me \in Workers, q \in QuestIds :
            \E partners \in TeamChoices(me) : ClickClaimEng(me, q, partners)
    \/ \E c \in Clients : UpdateQuestStatus(c)

SpecTeam == Init /\ [][NextTeam]_vars

\* ------------------------------------------- out-of-band edits
\* the worksheet's values end at its last row that is not blank
RECURSIVE TrimTrailing(_)
TrimTrailing(sh) ==
    IF sh # <<>> /\ sh[Len(sh)].id = 0
    THEN TrimTrailing(SubSeq(sh, 1, Len(sh) - 1))
    ELSE sh

\* somebody deletes a row of the worksheet by hand: the rows below move up
ManualDeleteRow(i) ==
    /\ i \in 1..Len(sheet)
    /\ sheet' = TrimTrailing(SubSeq(sheet, 1, i - 1) \o SubSeq(sheet, i + 1, Len(sheet)))
    /\ last' = Log("manual", "manual", TRUE, NoCall, sheet[i], 0, 0)
    /\ UNCHANGED <<dataCache, mapCache, call, issued, calc, headers, sig, obs, run>>

\* somebody inserts a blank row above row i by hand: the rows below move down
ManualInsertRow(i) ==
    /\ i \in 1..Len(sheet)
    /\ \A j \in 1..Len(sheet) : sheet[j].id # 0        \* one blank row at a time
    /\ sheet' = SubSeq(sheet, 1, i - 1) \o <<NoRow>> \o SubSeq(sheet, i, Len(sheet))
    /\ last' = Log("manual", "manual", TRUE, NoCall, NoRow, 0, 0)
    /\ UNCHANGED <<dataCache, mapCache, call, issued, calc, headers, sig, obs, run>>

\* the administrator publishing and one worker's session, and the worksheet
\* edited by hand beside them
NextManual ==
    \/ \E form \in {AdminForms[(issued % Len(AdminForms)) + 1]} :
            AddQuest(form[1], form[2])
    \/ \E me \in {Roster[1]}, q \in QuestIds :
            \E partners \in PartnerChoices(me) : ClickClaimEng(me, q, partners)
    \/ \E me \in {Roster[1]}, q \in QuestIds : ClickClaimMaint(me, q)
    \/ \E me \in {Roster[1]}, q \in QuestIds : ClickReport(me, q)
    \/ \E c \in Clients : UpdateQuestStatus(c)
    \/ \E c \in Clients : UpdateQuestStatusRaises(c)
    \/ \E i \in 1..(MaxQuests + 1) : ManualDeleteRow(i)
    \/ \E i \in 1..(MaxQuests + 1) : ManualInsertRow(i)

SpecManual == Init /\ [][NextManual]_vars

\* --------------------------------------------------- payouts alone
Statuses == {"Open", "Active", "Pending", "Done"}
Months == {0, 1}

\* teams a claim by h can leave: h and the first k of the others, k = 0..max_selections
PayTeams ==
    {<<h, SubSeq(SelectSeq(Roster, LAMBDA u : u # h), 1, k)>> :
        h \in Workers, k \in 0..max_selections}

\* rows of a frame: the ticket under study in every status, value and month ...
PayoutRows ==
    {[id |-> 0, rank |-> TYPE_ENG[1], points |-> v, status |-> st,
      hunter_id |-> t[1], created_at |-> at, partner_id |-> JoinPartners(t[2])] :
        v \in {0, 100, 101}, st \in Statuses, t \in PayTeams,
        at \in {MonthLen - 1, MonthLen}}

\* ... and the tickets around it
OtherRows ==
    {[id |-> 0, rank |-> TYPE_MAINT[1], points |-> 90, status |-> st,
      hunter_id |-> t[1], created_at |-> at, partner_id |-> JoinPartners(t[2])] :
        st \in {"Active", "Done"},
        t \in {<<"w1", <<>>>>, <<"w2", <<"w1">>>>},
        at \in {MonthLen - 1, MonthLen}}

RECURSIVE SeqsUpTo(_, _)
SeqsUpTo(S, n) ==
    IF n = 0 THEN {<<>>}
    ELSE {<<>>} \cup {<<x>> \o t : x \in S, t \in SeqsUpTo(S, n - 1)}

\* frames of at most MaxQuests tickets, ids in row order
PayoutFrames ==
    {<<>>} \cup
    {[i \in 1..Len(f) |-> [f[i] EXCEPT !.id = i]] :
        f \in {<<r>> \o rest : r \in PayoutRows, rest \in SeqsUpTo(OtherRows, MaxQuests - 1)}}

InitPayout ==
    /\ sheet \in PayoutFrames
    /\ dataCache = NoCache
    /\ mapCache = NoCache
    /\ call = [c \in Clients |-> NoCall]
    /\ last = Log("none", Admin, FALSE, NoCall, NoRow, 0, 0)
    /\ issued = Len(sheet)
    /\ calc = NoCalc
    /\ headers = QUEST_COLS
    /\ sig = [cache |-> NoCache, seen |-> [c \in Clients |-> NoSig],
              mark |-> [c \in Clients |-> NoMark]]
    /\ obs = NoObs
    /\ run = NoRun

\* a view calls calc_my_total_month(df, me, month_yyyy_mm) (lines 52, 170, 1272)
CalcMyTotalMonth(df, me, month_yyyy_mm) ==
    /\ calc' = [me |-> me, month_yyyy_mm |-> month_yyyy_mm,
                total |-> calc_my_total_month(df, me, month_yyyy_mm), called |-> TRUE]
    /\ UNCHANGED <<sheet, dataCache, mapCache, call, last, issued, headers, sig, obs, run>>

NextPayout ==
    \E me \in Employees, m \in Months : CalcMyTotalMonth(sheet, me, m)

SpecPayout == InitPayout /\ [][NextPayout]_vars

\* ------------------------------------------ the staleness tracker
\* the body of _latest_quest_signature() over the frame get_data returned
Signature(df) ==
    IF df = EmptyFrame
    THEN EMPTY
    ELSE <<SetMax({df[i].created_at : i \in 1..Len(df)}),
           SetMax({df[i].id : i \in 1..Len(df)})>>

\* what a call of _latest_quest_signature() can return, with the get_data
\* cache entry the call leaves: the value computed from a get_data read, or the
\* value of its own st.cache_data(ttl=5) entry while that has not expired
latest_quest_signature ==
    {<<Signature(df), Cached(df)>> : df \in get_data}
        \cup (IF sig.cache.hit THEN {<<sig.cache.val, dataCache>>} ELSE {})

\* _has_new_quests that compares before any signature was stored
has_new_quests_NoBaseline(latest, last_seen) ==
    [result |-> latest # last_seen, seen |-> last_seen]

\* _has_new_quests(sig_key): its return value and st.session_state[sig_key] after it
has_new_quests(latest, last_seen) ==
    IF last_seen = NoSig
    THEN [result |-> FALSE, seen |-> latest]
    ELSE [result |-> latest # last_seen, seen |-> last_seen]

\* a run of session c reaches has_new = _has_new_quests(sig_key) (line 574)
HasNewQuests(c) ==
    /\ \E rd \in latest_quest_signature :
        LET r == has_new_quests(rd[1], sig.seen[c])
        IN  /\ sig' = [cache |-> Cached(rd[1]),
                       seen |-> [sig.seen EXCEPT ![c] = r.seen],
                       mark |-> IF sig.seen[c] = NoSig
                                THEN [sig.mark EXCEPT ![c] = [how |-> "first", at |-> sheet]]
                                ELSE sig.mark]
            /\ dataCache' = rd[2]
            /\ obs' = [NoObs EXCEPT !.op = "check", !.who = c, !.latest = rd[1],
                                    !.prior = sig.seen[c], !.has_new = r.result,
                                    !.store = sheet]
    /\ UNCHANGED <<sheet, mapCache, call, last, issued, calc, headers, run>>

\* the run in which session c pressed the refresh button: the check of line 574,
\* then invalidate_cache() and _mark_seen(sig_key) (lines 605-606), whose
\* _latest_quest_signature() is answered by the entry line 574 just left
ClickRefresh(c) ==
    /\ \E rd \in latest_quest_signature :
        /\ sig' = [cache |-> Cached(rd[1]),
                   seen |-> [sig.seen EXCEPT ![c] = rd[1]],
                   mark |-> [sig.mark EXCEPT ![c] = [how |-> "refresh", at |-> sheet]]]
        /\ obs' = [NoObs EXCEPT !.op = "refresh", !.who = c, !.latest = rd[1],
                                !.prior = sig.seen[c],
                                !.has_new = has_new_quests(rd[1], sig.seen[c]).result,
                                !.store = sheet]
    /\ dataCache' = NoCache          \* invalidate_cache()
    /\ mapCache' = NoCache
    /\ UNCHANGED <<sheet, call, last, issued, calc, headers, run>>

\* the administrator publishing while the sessions poll and refresh
NextSig ==
    \/ \E form \in {AdminForms[(issued % Len(AdminForms)) + 1]} :
            AddQuest(form[1], form[2])
    \/ \E c \in Clients : HasNewQuests(c)
    \/ \E c \in Clients : ClickRefresh(c)

SpecSig == Init /\ [][NextSig]_vars

\* ------------------------------------------------ reads that fail
\* the dict quest_id_to_row_map() returns from its failure branches
EmptyMap == [q \in {} |-> 0]

\* a run of session c calls get_data(QUEST_SHEET) and the read goes through
GetData(c) ==
    /\ \E df \in get_data :
        /\ dataCache' = Cached(df)
        /\ obs' = [NoObs EXCEPT !.op = "get_data", !.who = c, !.frame = df, !.store = sheet]
    /\ UNCHANGED <<sheet, mapCache, call, last, issued, calc, headers, sig, run>>

\* get_data(QUEST_SHEET) finds no cache entry and connect_db() returns None or
\* the worksheet read raises: it returns pd.DataFrame() (lines 478-479,
\* 505-506), which st.cache_data keeps as the value of the call
GetDataFails(c) ==
    /\ dataCache' = Cached(EmptyFrame)
    /\ obs' = [NoObs EXCEPT !.op = "get_data", !.who = c, !.failed = TRUE,
                            !.frame = EmptyFrame, !.store = sheet]
    /\ UNCHANGED <<sheet, mapCache, call, last, issued, calc, headers, sig, run>>

\* update_quest_status when quest_id_to_row_map() finds no cache entry and its
\* worksheet read raises: the index is {} (lines 530-531), st.cache_data keeps
\* it, and the call returns False at line 684
UpdateQuestStatusIndexFails(c) ==
    /\ call[c] # NoCall
    /\ mapCache' = Cached(EmptyMap)
    /\ obs' = [NoObs EXCEPT !.op = "index", !.who = c, !.failed = TRUE,
                            !.mapping = EmptyMap, !.store = sheet]
    /\ last' = Log("update", c, FALSE, call[c], NoRow, 0, 0)
    /\ call' = [call EXCEPT ![c] = NoCall]
    /\ UNCHANGED <<sheet, dataCache, issued, calc, headers, sig, run>>

\* the administrator publishing and one worker's session over a connection
\* that can fail
NextFail ==
    \/ \E form \in {AdminForms[(issued % Len(AdminForms)) + 1]} :
            AddQuest(form[1], form[2])
    \/ \E me \in {Roster[1]}, q \in QuestIds :
            \E partners \in PartnerChoices(me) : ClickClaimEng(me, q, partners)
    \/ \E me \in {Roster[1]}, q \in QuestIds : ClickClaimMaint(me, q)
    \/ \E me \in {Roster[1]}, q \in QuestIds : ClickReport(me, q)
    \/ \E c \in Clients : UpdateQuestStatus(c)
    \/ \E c \in Clients : UpdateQuestStatusRaises(c)
    \/ \E c \in Clients : UpdateQuestStatusIndexFails(c)
    \/ \E c \in {Roster[1]} : GetData(c)
    \/ \E c \in {Roster[1]} : GetDataFails(c)

SpecFail == Init /\ [][NextFail]_vars

\* ------------------------------------------- header rows as found
\* row 1 as the worksheet's owner may have left it: as set up, with one more
\* column at the end, or with one cell blanked or renamed
HeaderRows ==
    {QUEST_COLS, QUEST_COLS \o <<"note">>}
        \cup {[QUEST_COLS EXCEPT ![i] = h] : i \in 1..Len(QUEST_COLS), h \in {"", "note"}}

\* the worksheet when the application starts: empty or holding a ticket
\* published earlier
InitHeader ==
    /\ headers \in HeaderRows
    /\ sheet \in {<<>>, <<NewRow(1, TYPE_ENG[1], 101, 1)>>}
    /\ issued = Len(sheet)
    /\ dataCache = NoCache
    /\ mapCache = NoCache
    /\ call = [c \in Clients |-> NoCall]
    /\ last = Log("none", Admin, FALSE, NoCall, NoRow, 0, 0)
    /\ calc = NoCalc
    /\ sig = [cache |-> NoCache, seen |-> [c \in Clients |-> NoSig],
              mark |-> [c \in Clients |-> NoMark]]
    /\ obs = NoObs
    /\ run = NoRun

\* the administrator publishing while the sessions read the tickets
NextHeader ==
    \/ \E form \in {AdminForms[(issued % Len(AdminForms)) + 1]} :
            AddQuest(form[1], form[2])
    \/ \E c \in Clients : GetData(c)

SpecHeader == InitHeader /\ [][NextHeader]_vars

\* ------------------------------------------- columns in another order
\* row 1 with the ten header names: as set up, with id and title swapped, and
\* with the id column moved to the end
ColumnOrders ==
    {QUEST_COLS,
     [QUEST_COLS EXCEPT ![1] = "title", ![2] = "id"],
     Tail(QUEST_COLS) \o <<"id">>}

InitColumns ==
    /\ headers \in ColumnOrders
    /\ sheet = <<>>
    /\ issued = 0
    /\ dataCache = NoCache
    /\ mapCache = NoCache
    /\ call = [c \in Clients |-> NoCall]
    /\ last = Log("none", Admin, FALSE, NoCall, NoRow, 0, 0)
    /\ calc = NoCalc
    /\ sig = [cache |-> NoCache, seen |-> [c \in Clients |-> NoSig],
              mark |-> [c \in Clients |-> NoMark]]
    /\ obs = NoObs
    /\ run = NoRun

\* the administrator publishing and one worker's session
NextColumns ==
    \/ \E form \in {AdminForms[(issued % Len(AdminForms)) + 1]} :
            AddQuest(form[1], form[2])
    \/ \E me \in {Roster[1]}, q \in QuestIds :
            \E partners \in PartnerChoices(me) : ClickClaimEng(me, q, partners)
    \/ \E me \in {Roster[1]}, q \in QuestIds : ClickClaimMaint(me, q)
    \/ \E me \in {Roster[1]}, q \in QuestIds : ClickReport(me, q)
    \/ \E c \in Clients : UpdateQuestStatus(c)

SpecColumns == InitColumns /\ [][NextColumns]_vars

\* ------------------------------------------- the category fallback
\* what the classifier may suggest: every category, nothing, a text that is no
\* category, and a category in another spelling
Suggestions ==
    Range(ALL_TYPES) \cup {"", "Nonsense", "ENG_FIRE", "eng_fire "}

\* normalize_category that keeps whatever the classifier suggested
normalize_category_TrustsSuggestion(suggested, value) ==
    IF suggested # "" THEN suggested
    ELSE IF value = 0 THEN TYPE_MAINT[1] ELSE TYPE_ENG[1]

\* normalize_category(suggested, budget), called at lines 934 and 1138
normalize_category(suggested, value) ==
    IF suggested \in Range(ALL_TYPES) THEN suggested
    ELSE IF value = 0 THEN TYPE_MAINT[1]
    ELSE TYPE_ENG[1]

\* the administrator's form takes the classifier's answer (lines 1137-1140)
NormalizeCategory(suggested, value) ==
    /\ calc' = [fn |-> "normalize_category", suggested |-> suggested, value |-> value,
                result |-> normalize_category(suggested, value)]
    /\ UNCHANGED <<sheet, dataCache, mapCache, call, last, issued, headers, sig, obs, run>>

NextCategory ==
    \E suggested \in Suggestions, value \in 0..MaxBudget :
        NormalizeCategory(suggested, value)

SpecCategory == Init /\ [][NextCategory]_vars

\* ------------------------------------------- quote numbers
\* a quote number is the sequence of its characters; the four characters of
\* the label, the half-width and the full-width colon
LABEL == <<"gu", "jia", "dan", "hao">>
Colon == ":"
FullColon == "fw:"

\* str.strip(chars): the characters of chars dropped from both ends
RECURSIVE StripLeft(_, _)
StripLeft(s, chars) ==
    IF s # <<>> /\ Head(s) \in chars THEN StripLeft(Tail(s), chars) ELSE s

RECURSIVE StripRight(_, _)
StripRight(s, chars) ==
    IF s # <<>> /\ s[Len(s)] \in chars
    THEN StripRight(SubSeq(s, 1, Len(s) - 1), chars)
    ELSE s

Strip(s, chars) == StripRight(StripLeft(s, chars), chars)

\* str.replace(old, ""): one pass from the left over the occurrences of old
\* that do not overlap
RECURSIVE Remove(_, _)
Remove(s, old) ==
    IF Len(s) < Len(old) THEN s
    ELSE IF SubSeq(s, 1, Len(old)) = old
         THEN Remove(SubSeq(s, Len(old) + 1, Len(s)), old)
         ELSE <<Head(s)>> \o Remove(Tail(s), old)

\* _normalize_quote_no(s)
normalize_quote_no(s) ==
    LET s1 == Strip(s, {" "})
        s2 == [i \in 1..Len(s1) |-> IF s1[i] = FullColon THEN Colon ELSE s1[i]]
        s3 == SelectSeq(s2, LAMBDA ch : ch # " ")
        s4 == Remove(Remove(s3, LABEL \o <<Colon>>), LABEL)
    IN  Strip(Strip(s4, {"-", "_", "#", FullColon, Colon, " "}), {" "})

\* what quote numbers are made of: the label, its two halves, colons, a
\* blank, a dash and a digit
Pieces ==
    {LABEL, SubSeq(LABEL, 1, 2), SubSeq(LABEL, 3, 4), <<Colon>>, <<FullColon>>,
     <<" ">>, <<"-">>, <<"7">>}

RECURSIVE Concats(_)
Concats(n) ==
    IF n = 0 THEN {<<>>}
    ELSE {<<>>} \cup {p \o t : p \in Pieces, t \in Concats(n - 1)}

QuoteInputs == Concats(MaxPieces)

\* a quote number as typed or recognised, not yet normalised
InitQuote ==
    /\ sheet = <<>>
    /\ dataCache = NoCache
    /\ mapCache = NoCache
    /\ call = [c \in Clients |-> NoCall]
    /\ last = Log("none", Admin, FALSE, NoCall, NoRow, 0, 0)
    /\ issued = 0
    /\ calc \in {[fn |-> "_normalize_quote_no", arg |-> s, result |-> s, times |-> 0] :
                    s \in QuoteInputs}
    /\ headers = QUEST_COLS
    /\ sig = [cache |-> NoCache, seen |-> [c \in Clients |-> NoSig],
              mark |-> [c \in Clients |-> NoMark]]
    /\ obs = NoObs
    /\ run = NoRun

\* _normalize_quote_no applied to the quote number as typed or recognised
\* (lines 644, 926)
NormalizeQuoteNo ==
    /\ calc.times = 0
    /\ calc' = [calc EXCEPT !.result = normalize_quote_no(calc.arg), !.times = 1]
    /\ UNCHANGED <<sheet, dataCache, mapCache, call, last, issued, headers, sig, obs, run>>

\* _normalize_quote_no applied to the quote number stored by line 644, as the
\* views do (lines 1188, 1478, 1528, 1576)
NormalizeStoredQuoteNo ==
    /\ calc.times = 1
    /\ calc' = [calc EXCEPT !.arg = calc.result,
                            !.result = normalize_quote_no(calc.result), !.times = 2]
    /\ UNCHANGED <<sheet, dataCache, mapCache, call, last, issued, headers, sig, obs, run>>

NextQuote ==
    \/ NormalizeQuoteNo
    \/ NormalizeStoredQuoteNo

SpecQuote == InitQuote /\ [][NextQuote]_vars

\* ------------------------- update_quest_status, statement by statement
\* the call reads the index and looks the id up (lines 678-684)
BeginUpdate(c) ==
    /\ run.pc = "idle"
    /\ call[c] # NoCall
    /\ \E mapping \in quest_id_to_row_map :
        /\ mapCache' = Cached(mapping)
        /\ IF call[c].quest_id \notin DOMAIN mapping
           THEN /\ run' = [NoRun EXCEPT !.who = c, !.steps = 1]
                /\ last' = Log("update", c, FALSE, call[c], NoRow, 0, 0)
                /\ call' = [call EXCEPT ![c] = NoCall]
           ELSE /\ run' = [NoRun EXCEPT !.pc = "check", !.who = c, !.steps = 1,
                                        !.cached_row = mapping[call[c].quest_id],
                                        !.row_num = mapping[call[c].quest_id]]
                /\ UNCHANGED <<last, call>>
    /\ UNCHANGED <<sheet, dataCache, issued, calc, headers, sig, obs>>

\* it reads the id cell of that row and compares (lines 700-705)
CheckIdCell ==
    /\ run.pc = "check"
    /\ run' = [run EXCEPT
                  !.pc = IF CellId(sheet, run.row_num) = call[run.who].quest_id
                         THEN "write" ELSE "scan",
                  !.steps = @ + 1]
    /\ UNCHANGED <<sheet, dataCache, mapCache, call, last, issued, calc, headers, sig, obs>>

\* Rescan that scans the id column again after a scan that found nothing
Rescan_Retries ==
    /\ run.pc = "scan"
    /\ LET c == run.who
           new_row == ResolveRowByScan(sheet, call[c].quest_id)
       IN  IF new_row = 0 /\ run.scans >= 2
           THEN /\ run' = [run EXCEPT !.pc = "idle", !.scans = @ + 1, !.steps = @ + 1]
                /\ last' = Log("update", c, FALSE, call[c], NoRow, run.cached_row, 0)
                /\ call' = [call EXCEPT ![c] = NoCall]
           ELSE /\ run' = [run EXCEPT !.pc = IF new_row = 0 THEN "scan" ELSE "write",
                                      !.row_num = IF new_row = 0 THEN @ ELSE new_row,
                                      !.scans = @ + 1, !.steps = @ + 1]
                /\ UNCHANGED <<last, call>>
    /\ UNCHANGED <<sheet, dataCache, mapCache, issued, calc, headers, sig, obs>>

\* the id cell differs: _resolve_row_by_scan() once, and return False if it
\* finds nothing (lines 690-698, 706-710)
Rescan ==
    /\ run.pc = "scan"
    /\ LET c == run.who
           new_row == ResolveRowByScan(sheet, call[c].quest_id)
       IN  IF new_row = 0
           THEN /\ run' = [run EXCEPT !.pc = "idle", !.scans = @ + 1, !.steps = @ + 1]
                /\ last' = Log("update", c, FALSE, call[c], NoRow, run.cached_row, 0)
                /\ call' = [call EXCEPT ![c] = NoCall]
           ELSE /\ run' = [run EXCEPT !.pc = "write", !.row_num = new_row,
                                      !.scans = @ + 1, !.steps = @ + 1]
                /\ UNCHANGED <<last, call>>
    /\ UNCHANGED <<sheet, dataCache, mapCache, issued, calc, headers, sig, obs>>

\* the worksheet with the cells of row row_num written; a row below the last
\* one is a blank row of the grid
WriteAt(sh, row_num, new_status, hunter_id, partner_list) ==
    IF row_num - 1 \in 1..Len(sh)
    THEN [sh EXCEPT ![row_num - 1] = WriteRow(@, new_status, hunter_id, partner_list)]
    ELSE sh \o [i \in 1..(row_num - 2 - Len(sh)) |-> NoRow]
            \o <<WriteRow(NoRow, new_status, hunter_id, partner_list)>>

\* ws.batch_update(updates), invalidate_cache(), return True (lines 712-745)
BatchUpdate ==
    /\ run.pc = "write"
    /\ LET c == run.who
           a == call[c]
       IN  /\ sheet' = WriteAt(sheet, run.row_num, a.new_status, a.hunter_id, a.partner_list)
           /\ last' = Log("update", c, TRUE, a,
                          IF run.row_num - 1 \in 1..Len(sheet)
                          THEN sheet[run.row_num - 1] ELSE NoRow,
                          run.cached_row, run.row_num)
           /\ call' = [call EXCEPT ![c] = NoCall]
    /\ run' = [run EXCEPT !.pc = "idle", !.writes = @ + 1, !.steps = @ + 1]
    /\ dataCache' = NoCache          \* invalidate_cache()
    /\ mapCache' = NoCache
    /\ UNCHANGED <<issued, calc, headers, sig, obs>>

\* the administrator publishing, one worker's session whose status updates
\* run statement by statement, and the worksheet edited by hand beside them
NextSteps ==
    \/ \E form \in {AdminForms[(issued % Len(AdminForms)) + 1]} :
            AddQuest(form[1], form[2])
    \/ \E me \in {Roster[1]}, q \in QuestIds : ClickClaimMaint(me, q)
    \/ \E me \in {Roster[1]}, q \in QuestIds : ClickReport(me, q)
    \/ \E c \in Clients : BeginUpdate(c)
    \/ CheckIdCell
    \/ Rescan
    \/ BatchUpdate
    \/ \E i \in 1..(MaxQuests + 1) : ManualDeleteRow(i)
    \/ \E i \in 1..(MaxQuests + 1) : ManualInsertRow(i)

SpecSteps == Init /\ [][NextSteps]_vars

\* ------------------------------------------- the busy check alone
\* the worker's view computes busy = is_me_busy(df, me) (line 1269)
IsMeBusy(df, me) ==
    /\ calc' = [fn |-> "is_me_busy", me |-> me, result |-> is_me_busy(df, me)]
    /\ UNCHANGED <<sheet, dataCache, mapCache, call, last, issued, headers, sig, obs, run>>

NextBusy ==
    \E me \in Employees : IsMeBusy(sheet, me)

SpecBusy == InitPayout /\ [][NextBusy]_vars

\* ------------------------------------------------------- vocabulary
\* {primaryWorkerId} \cup teammateIds of a row
Team(row) == {row.hunter_id} \cup Range(SplitPartners(row.partner_id))

\* the row of the sheet that holds ticket q
RowOf(q) == sheet[CHOOSE i \in 1..Len(sheet) : sheet[i].id = q]

\* the ticket the last call addressed, as it is now
LastRow == RowOf(last.quest_id)

Wrote == last.op = "update" /\ last.ok
LastIsClaim == Wrote /\ last.new_status = "Active" /\ last.hunter_id # None
LastIsReport == Wrote /\ last.new_status = "Pending"
LastIsApprove == Wrote /\ last.new_status = "Done"
LastIsReject == Wrote /\ last.new_status = "Active" /\ last.hunter_id = None
LastIsReopen == Wrote /\ last.new_status = "Open"

\* w is primary or teammate of an Active ticket other than q
ActiveElsewhere(w, q) ==
    \E i \in 1..Len(sheet) :
        /\ sheet[i].id # q
        /\ sheet[i].status = "Active"
        /\ w \in Team(sheet[i])

\* the lifecycle's edges
PermittedEdges ==
    {<<"Open", "Active">>, <<"Active", "Pending">>, <<"Pending", "Done">>,
     <<"Pending", "Active">>, <<"Active", "Open">>, <<"Pending", "Open">>}

\* ----------------------------------------------------------- claims

\* C1: in every reachable state each worker is primary or teammate of at most
\* one Active ticket.
C1_BusyLock ==
    \A w \in Workers :
        Cardinality({i \in 1..Len(sheet) :
                        sheet[i].status = "Active" /\ w \in Team(sheet[i])}) <= 1

C3_BusyClaimantWritesNothing ==
    LastIsClaim => ~ActiveElsewhere(last.who, last.quest_id)

\* C4: no worker who is primary or teammate of an Active ticket is added as a
\* teammate of another ticket through Claim.
C4_TeammatesNotBusy ==
    LastIsClaim =>
        \A p \in Range(last.partner_list) : ~ActiveElsewhere(p, last.quest_id)

\* C5: a status update takes effect only along an edge of the lifecycle, and
\* then results in exactly the status asked for.
C5_OnlyPermittedEdges ==
    Wrote =>
        /\ <<last.before.status, last.new_status>> \in PermittedEdges
        /\ LastRow.status = last.new_status

\* C6: no operation changes the status, primary or teammates of a Done ticket.
C6_DoneIsTerminal ==
    (Wrote /\ last.before.status = "Done") => LastRow = last.before

C8_RejectKeepsTeam ==
    LastIsReject => LastRow = [last.before EXCEPT !.status = "Active"]

\* a Pending team ticket has been rejected
C8_Witness ==
    /\ LastIsReject
    /\ last.before.status = "Pending"
    /\ last.before.hunter_id \in Workers
    /\ last.before.partner_id # <<>>
    /\ LastRow.status = "Active"

\* C9: an approve leaves the ticket Done and changes no other field (primary,
\* teammates, value, createdAt, id).
C9_ApproveOnlyStatus ==
    LastIsApprove => LastRow = [last.before EXCEPT !.status = "Done"]

\* a Pending team ticket has been approved
C9_Witness ==
    /\ LastIsApprove
    /\ last.before.status = "Pending"
    /\ last.before.hunter_id \in Workers
    /\ last.before.partner_id # <<>>
    /\ LastRow.status = "Done"

\* C10: after a reopen of an Active or Pending ticket the ticket has neither a
\* primary nor teammates.
C10_ReopenClearsAssignment ==
    (LastIsReopen /\ last.before.status \in {"Active", "Pending"}) =>
        /\ LastRow.status = "Open"
        /\ LastRow.hunter_id = ""
        /\ LastRow.partner_id = <<>>

\* C11: when two claims of the same Open ticket are both written, the ticket is
\* Active and its primary and teammates are those of the claim written last,
\* with nothing left of the earlier claim.
C11_LastClaimWins ==
    (LastIsClaim /\ last.seen.status = "Open" /\ last.before.status = "Active") =>
        /\ LastRow.status = "Active"
        /\ LastRow.hunter_id = last.hunter_id
        /\ SplitPartners(LastRow.partner_id) = last.partner_list
        /\ Team(LastRow) = {last.who} \cup Range(last.partner_list)

\* a solo claim has been written over another worker's team claim of that ticket
C11_Witness ==
    /\ LastIsClaim
    /\ last.seen.status = "Open"
    /\ last.before.status = "Active"
    /\ last.before.hunter_id # last.who
    /\ last.before.partner_id # <<>>
    /\ last.partner_list = <<>>
    /\ LastRow.partner_id = <<>>

\* ------------------------------------------------ payout vocabulary
RECURSIVE SumFn(_, _)
SumFn(f, S) ==
    IF S = {} THEN 0
    ELSE LET x == CHOOSE y \in S : TRUE IN f[x] + SumFn(f, S \ {x})

\* createdAt lies in month m
InMonth(row, m) == MonthLen * m <= row.created_at /\ row.created_at < MonthLen * (m + 1)

\* the Done tickets of month m
DoneIn(m) == {i \in 1..Len(sheet) : sheet[i].status = "Done" /\ InMonth(sheet[i], m)}

\* the Done tickets of month m with w on the team
DoneOf(w, m) == {i \in DoneIn(m) : w \in Team(sheet[i])}

\* floor(v / n) + (v mod n) for the primary, floor(v / n) for a teammate
ShareOf(row, w) ==
    LET n == Cardinality(Team(row))
    IN  IF w = row.hunter_id THEN (row.points \div n) + (row.points % n)
        ELSE row.points \div n

\* C12: the payouts of all workers for a month add up to the value of the Done
\* tickets of that month: every Done ticket is handed out exactly, nothing left
\* over and nothing counted twice.
C12_PayoutsSumToValue ==
    calc.called =>
        calc.total
          + SumFn([w \in Employees \ {calc.me} |->
                      calc_my_total_month(sheet, w, calc.month_yyyy_mm)],
                  Employees \ {calc.me})
        = SumFn([i \in DoneIn(calc.month_yyyy_mm) |-> sheet[i].points],
                DoneIn(calc.month_yyyy_mm))

\* the payout of a member of a Done ticket of value 101 and a team of four
C12_Witness ==
    /\ calc.called
    /\ \E i \in DoneOf(calc.me, calc.month_yyyy_mm) :
          /\ sheet[i].points = 101
          /\ Cardinality(Team(sheet[i])) = 4
    /\ calc.total > 0

\* C13: on a Done ticket of value v and team size n the primary is paid
\* floor(v / n) + (v mod n) and every teammate floor(v / n); value 100 and a
\* team of three give 34 to the primary and 33 to each of the others.
C13_PrimaryGetsRemainder ==
    calc.called =>
        \A i \in DoneOf(calc.me, calc.month_yyyy_mm) :
            DoneOf(calc.me, calc.month_yyyy_mm) = {i} =>
                /\ calc.total = ShareOf(sheet[i], calc.me)
                /\ (sheet[i].points = 100 /\ Cardinality(Team(sheet[i])) = 3) =>
                        calc.total = IF calc.me = sheet[i].hunter_id THEN 34 ELSE 33

\* the primary of a Done ticket of value 100 and a team of three is paid 34
C13_Witness ==
    /\ calc.called
    /\ \E i \in 1..Len(sheet) :
          /\ DoneOf(calc.me, calc.month_yyyy_mm) = {i}
          /\ sheet[i].points = 100
          /\ Cardinality(Team(sheet[i])) = 3
          /\ calc.me = sheet[i].hunter_id
    /\ calc.total = 34

\* C14: calc_my_total_month(tickets, w, m) is the sum of w's payouts over
\* exactly the tickets that are Done, created in month m and have w on the
\* team; every other ticket adds 0.
C14_TotalOverDoneOfMonth ==
    calc.called =>
        calc.total = SumFn([i \in DoneOf(calc.me, calc.month_yyyy_mm) |->
                               ShareOf(sheet[i], calc.me)],
                           DoneOf(calc.me, calc.month_yyyy_mm))

\* a total over a ticket that counts while a ticket of the worker that is not
\* Done, or of another month, is in the frame
C14_Witness ==
    /\ calc.called
    /\ DoneOf(calc.me, calc.month_yyyy_mm) # {}
    /\ \E i \in 1..Len(sheet) :
          /\ calc.me \in Team(sheet[i])
          /\ sheet[i].points > 0
          /\ i \notin DoneOf(calc.me, calc.month_yyyy_mm)
    /\ calc.total > 0

\* C15: a ticket of value 90 claimed solo by w, w being on no other ticket, adds
\* nothing to w's payout of the month of its creation while it is Open, Active
\* or Pending, and once it is approved that payout is 90.
C15_SoloTicketPaysOnApproval ==
    \A i \in 1..Len(sheet), w \in Workers, m \in Months :
        (/\ sheet[i].points = 90
         /\ InMonth(sheet[i], m)
         /\ \A j \in 1..Len(sheet) : j # i => w \notin Team(sheet[j])) =>
            /\ sheet[i].status # "Done" => calc_my_total_month(sheet, w, m) = 0
            /\ (sheet[i].status = "Done" /\ Team(sheet[i]) = {w}) =>
                    calc_my_total_month(sheet, w, m) = 90

\* the administrator has just approved a ticket of value 90 that its worker
\* claimed solo and reported, and the worker's payout of that month is 90
C15_Witness ==
    /\ LastIsApprove
    /\ last.before.status = "Pending"
    /\ LastRow.points = 90
    /\ LastRow.partner_id = <<>>
    /\ LastRow.hunter_id \in Workers
    /\ \A j \in 1..Len(sheet) :
          sheet[j].id # LastRow.id => LastRow.hunter_id \notin Team(sheet[j])
    /\ \E m \in Months :
          /\ InMonth(LastRow, m)
          /\ calc_my_total_month(sheet, LastRow.hunter_id, m) = 90

C17_OneBatchedWrite ==
    [][(last' # last /\ last'.op \in {"update", "update raised"}) =>
          IF last'.ok
          THEN /\ \E r \in 1..Len(sheet) :
                     \E row \in {sheet'[r]} :
                        /\ sheet' = [sheet EXCEPT ![r] = row]
                        /\ row.status = last'.new_status
                        /\ last'.hunter_id # None => row.hunter_id = last'.hunter_id
                        /\ last'.partner_list # NoneList =>
                               SplitPartners(row.partner_id) = last'.partner_list
               /\ \A df \in {sheet'} \cup (IF dataCache'.hit THEN {dataCache'.val} ELSE {}) :
                     df = sheet'
          ELSE sheet' = sheet]_vars

\* a claim with a teammate has been written: status, primary and teammates
C17_Witness ==
    /\ LastIsClaim
    /\ last.partner_list # <<>>
    /\ LastRow.status = "Active"
    /\ LastRow.hunter_id = last.who
    /\ SplitPartners(LastRow.partner_id) = last.partner_list
    /\ last.before.status = "Open"
    /\ last.before.partner_id = <<>>

\* C18: a step of a successful append or status update leaves both the frame
\* cache and the index cache empty, so that the next get_data and the next
\* quest_id_to_row_map are read from the worksheet and show that write.
C18_WriteInvalidatesCaches ==
    [][(last' # last /\ last'.ok /\ last'.op \in {"add", "update"}) =>
          /\ dataCache' = NoCache
          /\ mapCache' = NoCache
          /\ get_data' = {sheet'}
          /\ quest_id_to_row_map' = {RowMapOf(sheet')}]_vars

\* an update found the index stale, has been written, and both caches are empty
C18_Witness ==
    /\ Wrote
    /\ last.cached_row # last.row_num
    /\ dataCache = NoCache
    /\ mapCache = NoCache
    /\ get_data = {sheet}

\* C19: no step removes a row or changes the id, value or createdAt of a
\* ticket, and every id a new ticket gets has never been handed out before.
C19_IdValueCreatedAtFixed ==
    [][/\ Len(sheet') >= Len(sheet)
       /\ \A i \in 1..Len(sheet) :
             /\ sheet'[i].id = sheet[i].id
             /\ sheet'[i].points = sheet[i].points
             /\ sheet'[i].created_at = sheet[i].created_at
       /\ \A i \in (Len(sheet) + 1)..Len(sheet') :
             /\ sheet'[i].id \notin 0..issued
             /\ \A j \in 1..Len(sheet') : sheet'[j].id = sheet'[i].id => j = i]_vars

\* a ticket has been claimed, reopened and claimed again, and still has the id,
\* value and createdAt it was published with
C19_Witness ==
    /\ LastIsClaim
    /\ last.before.status = "Open"
    /\ last.before.hunter_id \in Workers
    /\ LastRow.id = last.before.id
    /\ LastRow.points = last.before.points
    /\ LastRow.points > 0
    /\ LastRow.created_at = last.before.created_at

\* C20: in every reachable state the teammates of every ticket are at most 3,
\* no worker is listed twice, and the primary is not among them.
C20_TeammatesWellFormed ==
    \A i \in 1..Len(sheet) :
        LET partners == SplitPartners(sheet[i].partner_id)
        IN  /\ Len(partners) <= 3
            /\ Cardinality(Range(partners)) = Len(partners)
            /\ sheet[i].hunter_id \notin Range(partners)

\* a bid with three teammates has been written over another worker's bid
C20_Witness ==
    /\ LastIsClaim
    /\ Len(last.partner_list) = 3
    /\ last.before.status = "Active"
    /\ last.before.hunter_id \in Range(last.partner_list)
    /\ Len(SplitPartners(LastRow.partner_id)) = 3

\* --------------------------------------------------------------- C21
\* C21: the first staleness check of a session that has no signature stored
\* returns False and stores the signature _latest_quest_signature() gave it
C21_FirstCheckAdoptsBaseline ==
    (obs.op = "check" /\ obs.prior = NoSig) =>
        /\ ~obs.has_new
        /\ obs.latest # NoSig
        /\ sig.seen[obs.who] = obs.latest

\* a session's first check found tickets in the worksheet
C21_Witness ==
    /\ obs.op = "check"
    /\ obs.prior = NoSig
    /\ obs.store # <<>>
    /\ sig.seen[obs.who] = Signature(obs.store)

\* --------------------------------------------------------------- C22
\* C22: a session stored the signature of the worksheet as it then was, and a
\* ticket appended since has changed that signature: the session's next check
\* returns True
C22_AddThenCheckReturnsTrue ==
    (/\ obs.op = "check"
     /\ obs.prior # NoSig
     /\ obs.prior = Signature(sig.mark[obs.who].at)
     /\ Signature(obs.store) # Signature(sig.mark[obs.who].at))
        => obs.has_new

\* --------------------------------------------------------------- C23
\* C23: a session pressed refresh and the worksheet is as it was then: every
\* check of that session returns False
C23_RefreshSettlesTheTracker ==
    (/\ obs.op = "check"
     /\ sig.mark[obs.who].how = "refresh"
     /\ sig.mark[obs.who].at = obs.store)
        => ~obs.has_new

\* --------------------------------------------------------------- C24
\* C24: a read of the tickets or of the index that failed does not return what
\* a read of an empty worksheet returns
C24_FailedReadIsNotEmpty ==
    obs.failed =>
        /\ obs.op = "get_data" => obs.frame # EmptyFrame
        /\ obs.op = "index" => obs.mapping # RowMapOf(<<>>)

\* --------------------------------------------------------------- C25
\* C25: a call that failed has written no row, and each read cache is as it
\* was, or empty, or holds what the worksheet holds
C25_FailedCallChangesNothing ==
    [][((obs' # obs /\ obs'.failed) \/ (last' # last /\ ~last'.ok)) =>
          /\ sheet' = sheet
          /\ dataCache' = dataCache \/ ~dataCache'.hit \/ dataCache'.val = sheet
          /\ mapCache' = mapCache \/ ~mapCache'.hit \/ mapCache'.val = RowMapOf(sheet)]_vars

\* --------------------------------------------------------------- C26
\* C26: a claim button is not pressed by a worker whose frame shows them as
\* primary or teammate of a Pending ticket
C26_PendingStillBusy ==
    [][\A me \in Workers :
          (/\ call'[me] # call[me]
           /\ call'[me].new_status = "Active"
           /\ call'[me].hunter_id = me)
              => ~\E i \in 1..Len(dataCache'.val) :
                     /\ dataCache'.val[i].status = "Pending"
                     /\ me \in Team(dataCache'.val[i])]_vars

\* --------------------------------------------------------------- C27
\* C27: after a claim is written the ticket is Active, its hunter_id is the
\* claimant and its partner_id cell holds the teammates picked in that claim
\* and nothing else, whatever the cell held before
C27_ClaimSetsAssignment ==
    LastIsClaim =>
        /\ last.hunter_id = last.who
        /\ LastRow.status = "Active"
        /\ LastRow.hunter_id = last.who
        /\ LastRow.partner_id = JoinPartners(last.partner_list)
        /\ Range(SplitPartners(LastRow.partner_id)) = Range(last.partner_list)

\* a claim has been written over a ticket whose partner_id cell held another team
C27_Witness ==
    /\ LastIsClaim
    /\ last.before.partner_id # <<>>
    /\ Range(SplitPartners(last.before.partner_id)) # Range(last.partner_list)
    /\ Range(SplitPartners(last.before.partner_id)) \cap Team(LastRow) = {}

\* --------------------------------------------------------------- C28
\* C28: add_quest_to_sheet appends one row below the rows there are and changes
\* none of them; the row is Open, has no hunter_id and no partner_id, and its id
\* is the id of no other row
C28_AppendsAFreshOpenTicket ==
    [][(last' # last /\ last'.op = "add" /\ last'.ok) =>
          /\ Len(sheet') = Len(sheet) + 1
          /\ SubSeq(sheet', 1, Len(sheet)) = sheet
          /\ LET r == sheet'[Len(sheet')]
             IN  /\ r.id = last'.quest_id
                 /\ r.status = "Open"
                 /\ r.hunter_id = ""
                 /\ r.partner_id = <<>>
                 /\ \A i \in 1..Len(sheet) : sheet[i].id # r.id]_vars

\* a ticket has been appended below a ticket that workers hold
C28_Witness ==
    /\ last.op = "add"
    /\ last.ok
    /\ Len(sheet) >= 2
    /\ sheet[Len(sheet)].id = last.quest_id
    /\ sheet[1].status = "Active"
    /\ sheet[1].partner_id # <<>>

\* --------------------------------------------------------------- C29
\* C29: update_quest_status called for an id its index read does not hold
\* returns False and leaves every row as it was
C29_UnknownIdWritesNothing ==
    [][(last' # last /\ last'.op = "update" /\ last'.cached_row = 0) =>
          /\ ~last'.ok
          /\ last'.row_num = 0
          /\ sheet' = sheet]_vars

\* a call found the index empty while the worksheet holds the ticket it names
C29_Witness ==
    /\ last.op = "update"
    /\ ~last.ok
    /\ last.cached_row = 0
    /\ mapCache = Cached(EmptyMap)
    /\ \E i \in 1..Len(sheet) : sheet[i].id = last.quest_id

\* --------------------------------------------------------------- C30
\* C30: add_quest_to_sheet called while row 1 lacks one of the ten header
\* names returns False after showing the error that lists them, appends no row
\* and clears no cache
C30_MissingHeaderAppendsNothing ==
    [][(/\ last' # last
        /\ last'.op = "add"
        /\ \E k \in 1..Len(QUEST_COLS) : QUEST_COLS[k] \notin Range(headers)) =>
          /\ ~last'.ok
          /\ last'.new_status = "missing headers"
          /\ sheet' = sheet
          /\ dataCache' = dataCache
          /\ mapCache' = mapCache
          /\ sig' = sig]_vars

\* an append was refused while the worksheet holds a ticket and get_data has
\* its rows cached
C30_Witness ==
    /\ last.op = "add"
    /\ ~last.ok
    /\ last.new_status = "missing headers"
    /\ "status" \notin Range(headers)
    /\ sheet # <<>>
    /\ dataCache = Cached(sheet)

\* --------------------------------------------------------------- C31
\* C31: whatever the order of the ten columns, the index maps every ticket's
\* id to its row, and a status update of a ticket the worksheet holds is
\* written to that ticket
C31_ColumnsByHeaderName ==
    /\ mapCache.hit =>
           \A i \in 1..Len(sheet) :
               /\ sheet[i].id \in DOMAIN mapCache.val
               /\ mapCache.val[sheet[i].id] = i + 1
    /\ (last.op = "update" /\ \E i \in 1..Len(sheet) : sheet[i].id = last.quest_id) =>
           /\ last.ok
           /\ LastRow.status = last.new_status

\* --------------------------------------------------------------- C32
\* C32: normalize_category returns a category of ALL_TYPES: the suggestion if
\* it is one of them letter for letter, else the first of TYPE_MAINT for a
\* budget of 0 and the first of TYPE_ENG for a budget above 0
C32_CategoryFallback ==
    calc # NoCalc =>
        /\ calc.result \in Range(ALL_TYPES)
        /\ calc.suggested \in Range(ALL_TYPES) => calc.result = calc.suggested
        /\ (calc.suggested \notin Range(ALL_TYPES) /\ calc.value = 0) =>
               calc.result = TYPE_MAINT[1]
        /\ (calc.suggested \notin Range(ALL_TYPES) /\ calc.value > 0) =>
               calc.result = TYPE_ENG[1]

\* a suggestion that is no category came with a budget above 0
C32_Witness ==
    /\ calc # NoCalc
    /\ calc.suggested = "Nonsense"
    /\ calc.value > 0
    /\ calc.result = TYPE_ENG[1]

\* --------------------------------------------------------------- C33
\* C33: _normalize_quote_no applied to one of its own results returns that
\* result
C33_QuoteNoIdempotent ==
    calc.times = 2 => calc.result = calc.arg

\* --------------------------------------------------------------- C34
\* C34: a call of update_quest_status makes at most four statements' worth of
\* steps, among them at most one rescan of the id column and at most one
\* batch write; when the rescan does not find the id the call returns False
\* there and then and has written nothing
C34_OneRescanOneWrite ==
    [][/\ run'.scans <= 1
       /\ run'.writes <= 1
       /\ run'.steps <= 4
       /\ (/\ run' # run
           /\ run.pc = "scan"
           /\ ResolveRowByScan(sheet, call[run.who].quest_id) = 0) =>
              /\ run'.pc = "idle"
              /\ run'.writes = 0
              /\ ~last'.ok
              /\ last'.who = run.who
              /\ sheet' = sheet]_vars

\* a call found another ticket in the row the index gave, rescanned once and
\* wrote once, into the row of its own ticket
C34_Witness ==
    /\ run.pc = "idle"
    /\ run.scans = 1
    /\ run.writes = 1
    /\ run.steps = 4
    /\ last.ok
    /\ last.cached_row # last.row_num
    /\ last.before.id = last.quest_id

\* --------------------------------------------------------------- C35
\* C35: is_me_busy(df, me) is True exactly when a ticket of df that is Active
\* has me as hunter_id or among its partner_id names; a frame whose tickets
\* with me are all Open, Pending or Done gives False
C35_BusyIsTheActiveScan ==
    calc # NoCalc =>
        /\ calc.result <=>
               \E i \in 1..Len(sheet) :
                   sheet[i].status = "Active" /\ calc.me \in Team(sheet[i])
        /\ (\A i \in 1..Len(sheet) :
                calc.me \in Team(sheet[i]) =>
                    sheet[i].status \in {"Open", "Pending", "Done"})
               => ~calc.result

\* a worker who is teammate of a Pending ticket and primary of a Done one
\* came out not busy
C35_Witness ==
    /\ calc # NoCalc
    /\ ~calc.result
    /\ \E i \in 1..Len(sheet) :
           /\ sheet[i].status = "Pending"
           /\ calc.me # sheet[i].hunter_id
           /\ calc.me \in Team(sheet[i])
    /\ \E i \in 1..Len(sheet) :
           sheet[i].status = "Done" /\ calc.me = sheet[i].hunter_id

\* --------------------------------------------------------------- C36
\* C36: every ticket that is Active, Pending or Done has a hunter_id
C36_AccountableWorker ==
    \A i \in 1..Len(sheet) :
        sheet[i].status \in {"Active", "Pending", "Done"} => sheet[i].hunter_id # ""

\* the worksheet holds a ticket approved for one worker and a ticket another
\* worker claimed over a claim already written
C36_Witness ==
    /\ \E i \in 1..Len(sheet) : sheet[i].status = "Done" /\ sheet[i].hunter_id # ""
    /\ LastIsClaim
    /\ last.before.status = "Active"
    /\ last.before.hunter_id # last.who
    /\ LastRow.hunter_id = last.who

====
